---- MODULE Spec2Model ----
(***************************************************************************)
(* The GhostMarket NEP-11 ledger (contracts/NEP11/GhostMarket.NFT.py) as a *)
(* state machine over the contract's flat key-value store.                 *)
(*                                                                         *)
(* Storage values are byte strings.  A byte string is modelled as a tuple: *)
(* <<>> is the empty byte string (what get() yields for a missing key and  *)
(* what the integer 0 is stored as), <<n>> the bytes of the integer n,     *)
(* <<a>> the 20 bytes of the address a.  Storage keys are the tuples of    *)
(* the parts the source concatenates: prefix, address, token bytes.        *)
(***************************************************************************)
EXTENDS Integers, Sequences, FiniteSets, TLC

\* ------------------------------------------------------------------ bounds

\* at most this many tokens are minted in a run
MaxMints == 2
\* getLockedContent is offered while the view counter of the token is below this
MaxViews == 1
\* multiMint and multiBurn take lists of at most this many items
MaxBatch == 2
\* the runs of onNEP11Payment that are followed step by step nest this deep;
\* a hook called deeper only returns or aborts
MaxDepth == 1
\* a hook calls the ledger at most this many times
MaxHookCalls == 1
\* at most this many calls change the mint fee or the authorized addresses
MaxAdmin == 2
\* a run that changes the mint fee or the authorized addresses mints at most
\* this many tokens
MaxAdminMints == 1

\* ------------------------------------------------------- token settings

OWNER == "owner"

DEPLOY_FEE == 10000000

TOKEN_SYMBOL == "GHOST"

TOKEN_SYMBOL_B == <<"GHOST">>

DEPLOYED == <<"deployed">>

ACCOUNT_PREFIX == <<"A">>
TOKEN_PREFIX == <<"T">>
LOCKED_PREFIX == <<"LC">>
BALANCE_PREFIX == <<"B">>
SUPPLY_PREFIX == <<"S">>
META_PREFIX == <<"M">>
LOCKED_VIEW_COUNT == <<"LVC">>

\* keys are kept as <<first byte, rest>> where the first byte is also a prefix
TOKEN_COUNT == <<"T", "C">>
MINT_FEE == <<"M", "INT_FEE">>
AUTH_ADDRESSES == <<"A", "UTH_ADDR">>

\* ---------------------------------------------------------- environment

\* the accounts of the model; Contracts are those get_contract() knows
Addresses == {OWNER, "hub"}
Contracts == {"hub"}

\* Python's None where an address is expected
None == "None"

\* Python's None as the data argument
NoData == <<>>

\* transaction hashes, as the integers tx.hash.to_int() gives
TxHashes == {0, 1}
Metas == {"m1"}
Contents == {<<"s1">>, <<"s2">>}
\* the data argument: None, or a value whose serialization reads as 1
DataVals == {NoData, <<1>>}

\* the fees setMintFee is called with
Fees == {-1, 1}

\* the sets of accounts whose witness a transaction can carry
SignerSets == {{}} \cup {{a} : a \in Addresses}

\* ------------------------------------------------- interop: conversions

\* bytes.to_int(): the empty byte string is 0
to_int(b) == IF b = <<>> THEN 0 ELSE b[1]

\* the bytes an integer is stored as: 0 is the empty byte string
to_bytes(n) == IF n = 0 THEN <<>> ELSE <<n>>

\* bytes.to_bool()
to_bool(b) == b # <<>>

\* serialize(data).to_int(): a data value is held as <<n>>, n being the
\* integer its serialization reads as (on the scale of TxHashes)
serialize_to_int(data) == data[1]

\* json_serialize(meta): the string between quotes
json_serialize(meta) == <<"json", meta>>

\* serialize(list)
serialize(auth) == <<"list", auth>>

\* deserialize(bytes) of a serialized list
deserialize(b) == b[2]

\* ----------------------------------------------------- interop: storage

\* the store is a function from the keys present to their values
EmptyStore == [k \in {} |-> <<>>]

get(s, key) == IF key \in DOMAIN s THEN s[key] ELSE <<>>

put(s, key, value) == [k \in (DOMAIN s) \cup {key} |-> IF k = key THEN value ELSE s[k]]

delete(s, key) == [k \in (DOMAIN s) \ {key} |-> s[k]]

\* find(prefix): the entries whose key starts with the prefix
find(s, prefix) ==
    {k \in DOMAIN s : Len(k) >= Len(prefix) /\ SubSeq(k, 1, Len(prefix)) = prefix}

\* ---------------------------------------------------------------- helpers

mk_account_prefix(address) == ACCOUNT_PREFIX \o <<address>>

mk_balance_key(address) == BALANCE_PREFIX \o <<address>>

mk_token_key(token) == TOKEN_PREFIX \o token

mk_locked_key(token) == LOCKED_PREFIX \o token

mk_meta_key(token) == META_PREFIX \o token

mk_lv_key(token) == LOCKED_VIEW_COUNT \o token

\* UInt160(bytes): the address the 20 bytes hold.  A missing entry reads as
\* the empty byte string, which is no script hash: BadHash stands for it.
BadHash == "bad-hash"

UInt160(b) == IF b = <<>> THEN BadHash ELSE b[1]

\* check_witness(hash) for a script hash, W being the witnessed accounts
check_witness(W, hash) == hash \in W

totalSupply(s) == to_int(get(s, SUPPLY_PREFIX))

balanceOf(s, owner) == to_int(get(s, mk_balance_key(owner)))

tokensOf(s, owner) == find(s, mk_account_prefix(owner))

tokens(s) == find(s, TOKEN_PREFIX)

get_meta(s, token) == get(s, mk_meta_key(token))

remove_meta(s, token) == delete(s, mk_meta_key(token))

add_meta(s, token, meta) == put(s, mk_meta_key(token), meta)

add_token(s, owner, token) == put(s, mk_account_prefix(owner) \o token, token)

\* remove_token that leaves the index entry in place
remove_token_kept(s, owner, token) == s

remove_token(s, owner, token) == delete(s, mk_account_prefix(owner) \o token)

remove_owner_of(s, token) == delete(s, mk_token_key(token))

set_owner_of(s, token, owner) == put(s, mk_token_key(token), <<owner>>)

get_owner_of(s, token) == UInt160(get(s, mk_token_key(token)))

add_locked_content(s, token, content) == put(s, mk_locked_key(token), content)

\* get_locked_content reading the metadata entry
get_locked_content_meta(s, token) == get(s, mk_meta_key(token))

get_locked_content(s, token) == get(s, mk_locked_key(token))

remove_locked_content(s, token) == delete(s, mk_locked_key(token))

get_mint_fee(s) == to_int(get(s, MINT_FEE))

set_mint_fee(s, amount) == put(s, MINT_FEE, to_bytes(amount))

get_locked_view_counter(s, token) == to_int(get(s, mk_lv_key(token)))

incr_locked_view_counter(s, token) ==
    put(s, mk_lv_key(token), to_bytes(get_locked_view_counter(s, token) + 1))

add_to_supply(s, amount) == put(s, SUPPLY_PREFIX, to_bytes(totalSupply(s) + amount))

add_to_balance(s, owner, amount) ==
    LET old == balanceOf(s, owner)
        new == old + amount
        key == mk_balance_key(owner)
    IN  IF new > 0 THEN put(s, key, to_bytes(new)) ELSE delete(s, key)

\* ------------------------------------------------------------- handlers
\* A handler maps the store and its arguments to an outcome: the store it
\* leaves, how the call ends ("true", "false", "value" for a returned value,
\* "fault" for an exception), the value returned, the events fired and the
\* contract whose onNEP11Payment is called last (None when none is).

Outcome(s, res, val, ev, hook) ==
    [st |-> s, res |-> res, val |-> val, ev |-> ev, hook |-> hook, next |-> 0]

Fault(s) == Outcome(s, "fault", <<>>, <<>>, None)

\* on_transfer(from_addr, to_addr, amount, tokenId)
on_transfer(from_address, to_address, amount, token) ==
    <<"Transfer", from_address, to_address, amount, token>>

\* post_transfer firing Transfer twice
post_transfer_twice(s, res, val, from_address, to_address, token) ==
    Outcome(s, res, val,
            <<on_transfer(from_address, to_address, 1, token),
              on_transfer(from_address, to_address, 1, token)>>,
            IF to_address # None /\ to_address \in Contracts THEN to_address ELSE None)

\* post_transfer fires Transfer and, when the receiver is a contract, calls
\* its onNEP11Payment: the outcome carries the event and the contract called
post_transfer(s, res, val, from_address, to_address, token) ==
    Outcome(s, res, val, <<on_transfer(from_address, to_address, 1, token)>>,
            IF to_address # None /\ to_address \in Contracts THEN to_address ELSE None)

\* transfer without the check of the owner's witness
transfer_unchecked(s, W, to, tokenId, strict) ==
    LET token_owner == get_owner_of(s, tokenId)
        s1 == add_to_balance(s, token_owner, -1)
        s2 == remove_token(s1, token_owner, tokenId)
        s3 == add_to_balance(s2, to, 1)
        s4 == add_token(s3, to, tokenId)
        s5 == set_owner_of(s4, tokenId, to)
    IN  IF token_owner = BadHash THEN Fault(s)
        ELSE post_transfer(IF token_owner # to THEN s5 ELSE s, "true", <<>>,
                           token_owner, to, tokenId)

\* strict: whether the build faults on a hash that is no 20 bytes (the owner
\* read for a token without TokenOwner entry) or treats it as not witnessed
transfer(s, W, to, tokenId, strict) ==
    LET token_owner == get_owner_of(s, tokenId)
        s1 == add_to_balance(s, token_owner, -1)
        s2 == remove_token(s1, token_owner, tokenId)
        s3 == add_to_balance(s2, to, 1)
        s4 == add_token(s3, to, tokenId)
        s5 == set_owner_of(s4, tokenId, to)
    IN  IF token_owner = BadHash /\ strict THEN Fault(s)
        ELSE IF ~check_witness(W, token_owner) THEN Outcome(s, "false", <<>>, <<>>, None)
        ELSE post_transfer(IF token_owner # to THEN s5 ELSE s, "true", <<>>,
                           token_owner, to, tokenId)

\* internal_burn that also deletes the view counter of the token
internal_burn_counter(s, W, token, strict) ==
    LET owner == get_owner_of(s, token)
        s1 == remove_token(s, owner, token)
        s2 == remove_meta(s1, token)
        s3 == remove_owner_of(s2, token)
        s4 == add_to_balance(s3, owner, -1)
        s5 == add_to_supply(s4, -1)
        s6 == delete(s5, mk_lv_key(token))
    IN  IF owner = BadHash /\ strict THEN Fault(s)
        ELSE IF ~check_witness(W, owner) THEN Outcome(s, "false", <<>>, <<>>, None)
        ELSE post_transfer(s6, "true", <<>>, owner, None, token)

internal_burn(s, W, token, strict) ==
    LET owner == get_owner_of(s, token)
        s1 == remove_token(s, owner, token)
        s2 == remove_meta(s1, token)
        s3 == remove_owner_of(s2, token)
        s4 == add_to_balance(s3, owner, -1)
        s5 == add_to_supply(s4, -1)
    IN  IF owner = BadHash /\ strict THEN Fault(s)
        ELSE IF ~check_witness(W, owner) THEN Outcome(s, "false", <<>>, <<>>, None)
        ELSE post_transfer(s5, "true", <<>>, owner, None, token)

burn(s, W, token, strict) == internal_burn(s, W, token, strict)

\* the token id internal_mint derives: the symbol followed by the bytes of
\* tx.hash + counter (+ serialize(data).to_int() when data is given)
new_token(txhash, token_id, data) ==
    LET nftData == 0 + txhash + token_id
    IN  TOKEN_SYMBOL_B \o
        <<IF data # NoData THEN nftData + serialize_to_int(data) ELSE nftData>>

internal_mint(s, account, meta, lockedContent, data, txhash) ==
    LET token_id == to_int(get(s, TOKEN_COUNT)) + 1
        s0 == put(s, TOKEN_COUNT, to_bytes(token_id))
        token == new_token(txhash, token_id, data)
        nftmeta == json_serialize(meta)
        s1 == add_token(s0, account, token)
        s2 == add_locked_content(s1, token, lockedContent)
        s3 == add_meta(s2, token, nftmeta)
        s4 == set_owner_of(s3, token, account)
        s5 == add_to_balance(s4, account, 1)
        s6 == add_to_supply(s5, 1)
    IN  post_transfer(s6, "value", token, None, account, token)

\* mint that goes on when the fee was not paid
mint_unpaid(s, account, meta, lockedContent, data, txhash, paid) ==
    LET fee == get_mint_fee(s)
    IN  IF fee < 0 THEN Fault(s)
        ELSE internal_mint(s, account, meta, lockedContent, data, txhash)

\* paid: what call_contract(GAS, 'transfer', [account, this, fee, None]) returns
mint(s, account, meta, lockedContent, data, txhash, paid) ==
    LET fee == get_mint_fee(s)
    IN  IF fee < 0 THEN Fault(s)
        ELSE IF ~paid THEN Fault(s)
        ELSE internal_mint(s, account, meta, lockedContent, data, txhash)

\* getLockedContent without the check of the owner's witness
getLockedContent_open(s, W, token, strict) ==
    LET owner == get_owner_of(s, token)
        s1 == incr_locked_view_counter(s, token)
    IN  IF owner = BadHash /\ strict THEN Fault(s)
        ELSE Outcome(s1, "value", get_locked_content(s1, token), <<>>, None)

getLockedContent(s, W, token, strict) ==
    LET owner == get_owner_of(s, token)
        s1 == incr_locked_view_counter(s, token)
    IN  IF owner = BadHash /\ strict THEN Fault(s)
        ELSE IF ~check_witness(W, owner) THEN Fault(s)
        ELSE Outcome(s1, "value", get_locked_content(s1, token), <<>>, None)

getLockedContentViewCount(s, token) == get_locked_view_counter(s, token)

verify(W) == IF check_witness(W, OWNER) THEN TRUE ELSE FALSE

\* ownerOf has a docstring and no statement: it reads nothing and returns no
\* address.  unset: whether the build faults on the missing return value or
\* hands back null
ownerOf(s, tokenId, unset) ==
    IF unset THEN Fault(s) ELSE Outcome(s, "value", <<None>>, <<>>, None)

getMintFee(s) == get_mint_fee(s)

setMintFee(s, W, fee) ==
    IF ~verify(W) THEN Fault(s)
    ELSE LET s1 == set_mint_fee(s, fee)
         IN  Outcome(s1, "value", <<get_mint_fee(s1)>>, <<>>, None)

\* on_auth(authorized, add)
on_auth(address, add) == <<"Auth", address, add>>

\* on_mint(creator, tokenId, tokenURI, externalURI, mint_fees): no method fires it
on_mint(creator, tokenId, tokenURI, externalURI, mint_fees) ==
    <<"Mint", creator, tokenId, tokenURI, externalURI, mint_fees>>

\* whether a list holds a value
Holds(auth, address) == \E i \in 1 .. Len(auth) : auth[i] = address

\* list.remove(value): the list without the first item equal to value
RECURSIVE remove(_, _)
remove(auth, address) ==
    IF auth = <<>> THEN auth
    ELSE IF Head(auth) = address THEN Tail(auth)
    ELSE <<Head(auth)>> \o remove(Tail(auth), address)

\* set_authorized_address that appends without looking for the address
set_authorized_address_append(s, W, address, authorized, lenient) ==
    LET serialized == get(s, AUTH_ADDRESSES)
        auth == deserialize(serialized)
        added == Append(auth, address)
    IN  IF ~verify(W) THEN Outcome(s, "false", <<>>, <<>>, None)
        ELSE IF serialized = <<>> THEN Fault(s)
        ELSE IF authorized
             THEN Outcome(put(s, AUTH_ADDRESSES, serialize(added)), "true", <<>>,
                          <<on_auth(address, TRUE)>>, None)
        ELSE IF ~Holds(auth, address) /\ ~lenient THEN Fault(s)
        ELSE Outcome(put(s, AUTH_ADDRESSES, serialize(remove(auth, address))), "true",
                     <<>>, <<on_auth(address, FALSE)>>, None)

\* lenient: whether list.remove of a value the list does not hold leaves the
\* list alone or faults
set_authorized_address(s, W, address, authorized, lenient) ==
    LET serialized == get(s, AUTH_ADDRESSES)
        auth == deserialize(serialized)
        added == IF Holds(auth, address) THEN auth ELSE Append(auth, address)
    IN  IF ~verify(W) THEN Outcome(s, "false", <<>>, <<>>, None)
        ELSE IF serialized = <<>> THEN Fault(s)
        ELSE IF authorized
             THEN Outcome(put(s, AUTH_ADDRESSES, serialize(added)), "true", <<>>,
                          <<on_auth(address, TRUE)>>, None)
        ELSE IF ~Holds(auth, address) /\ ~lenient THEN Fault(s)
        ELSE Outcome(put(s, AUTH_ADDRESSES, serialize(remove(auth, address))), "true",
                     <<>>, <<on_auth(address, FALSE)>>, None)

on_deploy(owner, symbol) == <<"Deploy", owner, symbol>>

\* deploy that does not look at the deployed flag
deploy_again(s, W) ==
    LET s1 == put(s, DEPLOYED, to_bytes(1))
        s2 == put(s1, TOKEN_COUNT, to_bytes(0))
        s3 == put(s2, MINT_FEE, to_bytes(DEPLOY_FEE))
        auth == <<OWNER>>
        s4 == put(s3, AUTH_ADDRESSES, serialize(auth))
    IN  IF ~check_witness(W, OWNER) THEN Outcome(s, "false", <<>>, <<>>, None)
        ELSE Outcome(s4, "true", <<>>, <<on_deploy(OWNER, TOKEN_SYMBOL)>>, None)

deploy(s, W) ==
    LET s1 == put(s, DEPLOYED, to_bytes(1))
        s2 == put(s1, TOKEN_COUNT, to_bytes(0))
        s3 == put(s2, MINT_FEE, to_bytes(DEPLOY_FEE))
        auth == <<OWNER>>
        s4 == put(s3, AUTH_ADDRESSES, serialize(auth))
    IN  IF ~check_witness(W, OWNER) THEN Outcome(s, "false", <<>>, <<>>, None)
        ELSE IF to_bool(get(s, DEPLOYED)) THEN Outcome(s, "false", <<>>, <<>>, None)
        ELSE Outcome(s4, "true", <<>>, <<on_deploy(OWNER, TOKEN_SYMBOL)>>, None)

RECURSIVE multiBurn(_, _, _, _)
multiBurn(s, W, toks, strict) ==
    IF toks = <<>> THEN Outcome(s, "value", <<>>, <<>>, None)
    ELSE LET b == burn(s, W, Head(toks), strict)
             rest == multiBurn(b.st, W, Tail(toks), strict)
         IN  IF b.res = "fault" \/ rest.res = "fault" THEN Fault(s)
             ELSE Outcome(rest.st, "value", <<b.res>> \o rest.val, b.ev \o rest.ev, None)

\* multiMintFrom that, when an item fails, returns the ids minted so far
RECURSIVE multiMintFrom_partial(_, _, _, _, _, _, _, _, _, _)
multiMintFrom_partial(s, account, meta, lockedContent, data, txhash, paid, i, nfts, watch) ==
    LET stop == [Outcome(s, "value", nfts, <<>>, None) EXCEPT !.next = Len(meta) + 1]
    IN  IF i > Len(meta) THEN [Outcome(s, "value", nfts, <<>>, None) EXCEPT !.next = i]
        ELSE IF i > Len(lockedContent) THEN stop
        ELSE LET m == mint(s, account, meta[i], lockedContent[i], data, txhash, paid[i])
             IN  IF m.res = "fault" THEN stop
                 ELSE IF m.hook # None /\ watch
                      THEN [m EXCEPT !.val = Append(nfts, m.val), !.next = i + 1]
                 ELSE LET rest == multiMintFrom_partial(m.st, account, meta, lockedContent,
                                                        data, txhash, paid, i + 1,
                                                        Append(nfts, m.val), watch)
                      IN  [rest EXCEPT !.ev = m.ev \o @,
                                       !.hook = IF m.hook # None THEN m.hook ELSE @]

\* multiMint's loop from item i on, nfts being the ids minted so far; it runs
\* until the list ends or a mint faults or, when the hook's run is followed
\* (watch), until a mint calls the receiver's hook: the outcome then names the
\* item the loop resumes at (next)
RECURSIVE multiMintFrom(_, _, _, _, _, _, _, _, _, _)
multiMintFrom(s, account, meta, lockedContent, data, txhash, paid, i, nfts, watch) ==
    IF i > Len(meta) THEN [Outcome(s, "value", nfts, <<>>, None) EXCEPT !.next = i]
    ELSE IF i > Len(lockedContent) THEN [Fault(s) EXCEPT !.next = i]
    ELSE LET m == mint(s, account, meta[i], lockedContent[i], data, txhash, paid[i])
         IN  IF m.res = "fault" THEN [Fault(s) EXCEPT !.next = i]
             ELSE IF m.hook # None /\ watch
                  THEN [m EXCEPT !.val = Append(nfts, m.val), !.next = i + 1]
             ELSE LET rest == multiMintFrom(m.st, account, meta, lockedContent, data,
                                            txhash, paid, i + 1, Append(nfts, m.val), watch)
                  IN  [rest EXCEPT !.ev = m.ev \o @,
                                   !.hook = IF m.hook # None THEN m.hook ELSE @]

\* ------------------------------------------------------------ the state

VARIABLES
    store,  \* the contract's storage
    stack,  \* the calls suspended in a receiver's onNEP11Payment, innermost first
    last,   \* the transaction's call, once it ended or was suspended
    hist    \* history: the tokens minted and what each mint was given

vars == <<store, stack, last, hist>>

\* paid: what the GAS transfers of the call return, for mint and multiMint
Call(op, W, to, token, paid) ==
    [op |-> op, W |-> W, to |-> to, token |-> token, paid |-> paid, arg |-> <<>>]

\* a call with an argument that is no address and no token: a fee, the flag of
\* set_authorized_address, the list of multiBurn (multiMint's two lists are
\* kept the same way)
CallWith(op, W, to, arg) == [Call(op, W, to, <<>>, <<>>) EXCEPT !.arg = <<arg>>]

\* hooked: "no" hook was called, the hook was "quiet" (it returned without
\* calling the ledger), it "called" the ledger, or it "aborted"
Last(c, r, res, hooked) ==
    [op |-> c.op, W |-> c.W, to |-> c.to, token |-> c.token, paid |-> c.paid,
     arg |-> c.arg, res |-> res, val |-> r.val, ev |-> r.ev, hooked |-> hooked]

Idle == Last(Call("none", {}, None, <<>>, <<>>), Fault(EmptyStore), "none", "no")

NoArgs == [account |-> None, meta |-> <<>>, lockedContent |-> <<>>, data |-> NoData,
           txhash |-> 0, paid |-> <<>>]

\* c: the suspended call, r: its outcome so far, args: what multiMint resumes
\* with, calls: how often the hook has called the ledger
Frame(c, r, args) ==
    [call |-> c, callee |-> r.hook, args |-> args, calls |-> 0,
     res |-> r.res, val |-> r.val, ev |-> r.ev, next |-> r.next,
     pre |-> store, preHist |-> hist]

Init ==
    /\ store = EmptyStore
    /\ stack = <<>>
    /\ hist = [content |-> EmptyStore, mints |-> 0, admin |-> 0]
    /\ last = Idle

\* the store and the history the running transaction started from
TxPre == IF stack = <<>> THEN store ELSE stack[Len(stack)].pre

TxPreHist == IF stack = <<>> THEN hist ELSE stack[Len(stack)].preHist

\* the accounts a call can be witnessed by: the signers of the transaction, or,
\* for a call made from inside a hook, the calling contract and any signers
\* whose witness scope reaches that call
CallerWitness ==
    IF stack = <<>> THEN SignerSets
    ELSE {{stack[1].callee} \cup G : G \in SUBSET stack[Len(stack)].call.W}

\* a token id a caller can pass: one that was minted, or one that never is
NeverMinted == TOKEN_SYMBOL_B \o <<0>>

TokenArgs == (DOMAIN hist.content) \cup {NeverMinted}

\* a transaction calls the contract once the last one is done
TxCall == stack = <<>> /\ last = Idle

\* a hook calls transfer, burn or getLockedContent, while it may
CanCall == IF stack = <<>> THEN last = Idle ELSE stack[1].calls < MaxHookCalls

\* whether the run of a hook called now is followed step by step
Watch == Len(stack) < MaxDepth

\* a fault ends the whole transaction: storage falls back to what it was when
\* the transaction began, and the outermost call is the one that failed
Revert(c, hooked) ==
    /\ store' = TxPre
    /\ hist' = TxPreHist
    /\ stack' = <<>>
    /\ last' = Last(IF stack = <<>> THEN c ELSE stack[Len(stack)].call,
                    Fault(store), "fault", hooked)

NoteCall(stk) == IF stk = <<>> THEN stk ELSE [stk EXCEPT ![1].calls = @ + 1]

\* call c was run and gave outcome r, h being the history after it: it faults
\* (also when its hook aborts), it is suspended in the receiver's hook, or it
\* returns.  Only the transaction's own call is noted in last.
Complete(c, r, args, h, aborts) ==
    IF r.res = "fault" THEN Revert(c, IF stack = <<>> THEN "no" ELSE "aborted")
    ELSE IF r.hook # None /\ ~Watch /\ aborts THEN Revert(c, "aborted")
    ELSE /\ store' = r.st
         /\ hist' = h
         /\ IF r.hook # None /\ Watch
            THEN /\ stack' = <<Frame(c, r, args)>> \o NoteCall(stack)
                 /\ last' = IF stack = <<>> THEN Last(c, r, "pending", "no") ELSE last
            ELSE /\ stack' = NoteCall(stack)
                 /\ last' = IF stack = <<>>
                            THEN Last(c, r, r.res, IF r.hook # None THEN "quiet" ELSE "no")
                            ELSE last

Minted(h, token, content) ==
    [h EXCEPT !.content = put(@, token, content), !.mints = @ + 1]

RECURSIVE MintedAll(_, _, _, _)
MintedAll(h, nfts, lockedContent, i) ==
    IF i > Len(nfts) THEN h
    ELSE MintedAll(Minted(h, nfts[i], lockedContent[i]), nfts, lockedContent, i + 1)

Deploy ==
    /\ TxCall
    /\ \E W \in CallerWitness :
          Complete(Call("deploy", W, None, <<>>, <<>>), deploy(store, W), NoArgs, hist, FALSE)

\* transfer's data argument only travels on to the hook
Transfer ==
    /\ CanCall
    /\ \E W \in CallerWitness, to \in Addresses, tokenId \in TokenArgs,
          strict \in BOOLEAN, aborts \in BOOLEAN :
          Complete(Call("transfer", W, to, tokenId, <<>>),
                   transfer(store, W, to, tokenId, strict), NoArgs, hist, aborts)

Burn ==
    /\ CanCall
    /\ \E W \in CallerWitness, token \in TokenArgs, strict \in BOOLEAN :
          Complete(Call("burn", W, None, token, <<>>), burn(store, W, token, strict),
                   NoArgs, hist, FALSE)

MultiBurn ==
    /\ TxCall
    /\ \E W \in CallerWitness, n \in 0 .. MaxBatch, strict \in BOOLEAN :
          \E toks \in [1 .. n -> TokenArgs] :
              Complete(CallWith("multiBurn", W, None, toks), multiBurn(store, W, toks, strict),
                       NoArgs, hist, FALSE)

\* mint checks no witness itself: the payment of the fee does
Mint ==
    /\ TxCall
    /\ hist.mints < MaxMints
    /\ hist.admin = 0 \/ hist.mints < MaxAdminMints
    /\ \E account \in Addresses, meta \in Metas, lockedContent \in Contents,
          data \in DataVals, txhash \in TxHashes, paid \in BOOLEAN, aborts \in BOOLEAN :
          LET r == mint(store, account, meta, lockedContent, data, txhash, paid)
          IN  Complete(Call("mint", {}, account, <<>>, <<paid>>), r, NoArgs,
                       IF r.res = "fault" THEN hist ELSE Minted(hist, r.val, lockedContent),
                       aborts)

MultiMint ==
    /\ TxCall
    /\ \E account \in Addresses, n \in 0 .. MaxBatch, k \in 0 .. MaxBatch,
          data \in DataVals, txhash \in TxHashes, aborts \in BOOLEAN :
          /\ hist.mints + n <= MaxMints
          /\ hist.admin = 0 \/ hist.mints + n <= MaxAdminMints
          /\ \E meta \in [1 .. n -> Metas], lockedContent \in [1 .. k -> Contents],
                paid \in [1 .. n -> BOOLEAN] :
                LET r == multiMintFrom(store, account, meta, lockedContent, data,
                                       txhash, paid, 1, <<>>, Watch)
                IN  Complete([Call("multiMint", {}, account, <<>>, paid)
                                 EXCEPT !.arg = <<meta, lockedContent>>], r,
                             [account |-> account, meta |-> meta,
                              lockedContent |-> lockedContent, data |-> data,
                              txhash |-> txhash, paid |-> paid],
                             IF r.res = "fault" THEN hist
                             ELSE MintedAll(hist, r.val, lockedContent, 1),
                             aborts)

\* a call that changed the fee or the authorized addresses is counted
Changed(h, r) == IF r.res # "fault" /\ r.st # store THEN [h EXCEPT !.admin = @ + 1] ELSE h

\* whether the run may change the fee or the authorized addresses once more
MayChange(h) == h.admin <= MaxAdmin /\ (h.admin = 0 \/ h.mints <= MaxAdminMints)

SetMintFee ==
    /\ TxCall
    /\ \E W \in CallerWitness, fee \in Fees :
          LET r == setMintFee(store, W, fee)
          IN  /\ MayChange(Changed(hist, r))
              /\ Complete(CallWith("setMintFee", W, None, fee), r, NoArgs,
                          Changed(hist, r), FALSE)

SetAuthorizedAddress ==
    /\ TxCall
    /\ \E W \in CallerWitness, address \in Addresses, authorized \in BOOLEAN,
          lenient \in BOOLEAN :
          LET r == set_authorized_address(store, W, address, authorized, lenient)
          IN  /\ MayChange(Changed(hist, r))
              /\ Complete(CallWith("set_authorized_address", W, address, authorized), r,
                          NoArgs, Changed(hist, r), FALSE)

OwnerOf ==
    /\ TxCall
    /\ \E tokenId \in TokenArgs, unset \in BOOLEAN :
          Complete(Call("ownerOf", {}, None, tokenId, <<>>), ownerOf(store, tokenId, unset),
                   NoArgs, hist, FALSE)

GetLockedContent ==
    /\ CanCall
    /\ \E W \in CallerWitness, token \in TokenArgs, strict \in BOOLEAN :
          /\ get_locked_view_counter(store, token) < MaxViews
          /\ Complete(Call("getLockedContent", W, None, token, <<>>),
                      getLockedContent(store, W, token, strict), NoArgs, hist, FALSE)

\* the hook returns: the suspended call goes on.  multiMint mints its next
\* items; every other call returns what it had to return.
HookReturn ==
    /\ stack # <<>>
    /\ LET f == stack[1]
           a == f.args
           r == multiMintFrom(store, a.account, a.meta, a.lockedContent, a.data,
                              a.txhash, a.paid, f.next, f.val, TRUE)
           hooked == IF f.calls > 0 THEN "called" ELSE "quiet"
       IN  IF f.call.op = "multiMint" /\ f.next <= Len(a.meta)
           THEN IF r.res = "fault" THEN Revert(f.call, hooked)
                ELSE /\ store' = r.st
                     /\ hist' = MintedAll(hist, r.val, a.lockedContent, f.next)
                     /\ stack' = <<[f EXCEPT !.val = r.val, !.ev = @ \o r.ev,
                                              !.next = r.next]>> \o Tail(stack)
                     /\ last' = last
           ELSE /\ store' = store
                /\ hist' = hist
                /\ stack' = Tail(stack)
                /\ last' = IF Len(stack) = 1
                           THEN Last(f.call, [val |-> f.val, ev |-> f.ev], f.res, hooked)
                           ELSE last

\* the hook aborts or throws (the contract's own onNEP11Payment always does)
HookAbort ==
    /\ stack # <<>>
    /\ Revert(stack[1].call, "aborted")

\* the transaction is over: its result and notifications go to its sender
Finish ==
    /\ stack = <<>>
    /\ last # Idle
    /\ last' = Idle
    /\ UNCHANGED <<store, stack, hist>>

Next ==
    \/ Deploy
    \/ Transfer
    \/ Burn
    \/ MultiBurn
    \/ Mint
    \/ MultiMint
    \/ GetLockedContent
    \/ SetMintFee
    \/ SetAuthorizedAddress
    \/ OwnerOf
    \/ HookReturn
    \/ HookAbort
    \/ Finish

Spec == Init /\ [][Next]_vars

\* ---------------------------------------------------------- properties

\* token t has a TokenOwner entry
Live(s, t) == mk_token_key(t) \in DOMAIN s

\* the TokenOwner entries that name address a
OwnedBy(s, a) == {k \in find(s, TOKEN_PREFIX) : k # TOKEN_COUNT /\ s[k] = <<a>>}

\* the TokenOwner entries
TokenOwners(s) == {k \in find(s, TOKEN_PREFIX) : k # TOKEN_COUNT}

\* token t was minted and has no TokenOwner entry: it was burned
Burned(s, h, t) == t \in DOMAIN h.content /\ ~Live(s, t)

\* this step is the transaction calling op
Begins(op) == last = Idle /\ last'.op = op

\* this step ends the transaction's call of op: it returned or faulted, and
\* TxPre is the store it was called in
Ends(op) == stack' = <<>> /\ last' # last /\ last'.op = op

\* no hook ran, or the hook that ran left the ledger alone
Undisturbed(l) == l.hooked \in {"no", "quiet"}

\* the entries transfer has no business with: supply, metadata, locked
\* content and view counters
Untouched(pre, post) ==
    \A k \in (DOMAIN pre) \cup (DOMAIN post) :
        k[1] \in {"S", "M", "LC", "LVC"} => get(pre, k) = get(post, k)

\* what a transfer of t from o to another address leaves, pre being the store before
TransferPost(pre, post, o, to, t) ==
    /\ get(post, mk_token_key(t)) = <<to>>
    /\ get_owner_of(post, t) = to
    /\ mk_account_prefix(o) \o t \notin tokensOf(post, o)
    /\ mk_account_prefix(to) \o t \in tokensOf(post, to)
    /\ balanceOf(post, o) = balanceOf(pre, o) - 1
    /\ balanceOf(post, to) = balanceOf(pre, to) + 1
    /\ totalSupply(post) = totalSupply(pre)
    /\ Untouched(pre, post)

\* C1: in every reachable state the balance of each address is the number of
\* tokens whose TokenOwner entry names it
C1_Accounting ==
    \A a \in Addresses : balanceOf(store, a) = Cardinality(OwnedBy(store, a))

\* C2: in every reachable state the total supply is the number of tokens that
\* have a TokenOwner entry
C2_Supply == totalSupply(store) = Cardinality(TokenOwners(store))

\* C3: a successful mint returns an id that no earlier mint returned and that
\* has no TokenOwner entry yet; the ids of one multiMint differ from each other
C3_UniqueIds ==
    [][ /\ (Begins("mint") /\ last'.res # "fault") =>
              /\ last'.val \notin DOMAIN hist.content
              /\ ~Live(store, last'.val)
        /\ (Begins("multiMint") /\ last'.res # "fault") =>
              \A i \in 1 .. Len(last'.val) :
                  /\ last'.val[i] \notin DOMAIN hist.content
                  /\ \A j \in 1 .. Len(last'.val) : last'.val[i] = last'.val[j] => i = j
      ]_vars

\* C4: a transfer or burn of a live token whose owner is not witnessed returns
\* false, fires no event, calls no hook and leaves the store as it was
C4_SoftFailure ==
    [][ \A op \in {"transfer", "burn"} :
           Begins(op) =>
              LET t == last'.token
                  o == get_owner_of(store, t)
              IN  (Live(store, t) /\ ~check_witness(last'.W, o)) =>
                     /\ last'.res = "false"
                     /\ last'.ev = <<>>
                     /\ last'.hooked = "no"
                     /\ stack' = <<>>
                     /\ store' = store
      ]_vars

\* a transfer signed by somebody who is not the owner of the live token was refused
C4_Refused ==
    /\ last.op = "transfer"
    /\ last.res = "false"
    /\ Live(store, last.token)
    /\ last.W # {}
    /\ get_owner_of(store, last.token) \notin last.W

\* C5 as stated: a transfer of a live token by its witnessed owner o to another
\* address returns true and moves owner entry, index entry and balances,
\* leaving supply, metadata, locked content and view counters alone
C5_AsStated ==
    [][ Ends("transfer") =>
           LET t == last'.token
               to == last'.to
               o == get_owner_of(TxPre, t)
           IN  (Live(TxPre, t) /\ check_witness(last'.W, o) /\ to # o) =>
                  /\ last'.res = "true"
                  /\ TransferPost(TxPre, store', o, to, t)
      ]_vars

\* C5: a transfer of a live token by its witnessed owner o to another address
\* returns true unless the receiver is a contract whose hook aborts (the call
\* then faults and the store is as before); when it returns true and the
\* receiver's hook, if one ran, called nothing, owner entry, index entry and
\* balances have moved and supply, metadata, locked content and view counters
\* are as before
C5_TransferEffect ==
    [][ Ends("transfer") =>
           LET t == last'.token
               to == last'.to
               o == get_owner_of(TxPre, t)
           IN  (Live(TxPre, t) /\ check_witness(last'.W, o) /\ to # o) =>
                  /\ last'.res \in {"true", "fault"}
                  /\ last'.res = "fault" =>
                        (last'.hooked = "aborted" /\ to \in Contracts /\ store' = TxPre)
                  /\ to \notin Contracts => (last'.res = "true" /\ last'.hooked = "no")
                  /\ (last'.res = "true" /\ Undisturbed(last')) =>
                        TransferPost(TxPre, store', o, to, t)
      ]_vars

\* a token went to a contract whose hook returned without calling the ledger
C5_Moved ==
    /\ last.op = "transfer"
    /\ last.res = "true"
    /\ last.hooked = "quiet"
    /\ last.ev[1][2] # last.to
    /\ get_owner_of(store, last.token) = last.to

\* C6 as stated: a transfer of a live token by its witnessed owner to the owner
\* returns true, fires exactly one Transfer event (o, o, 1, t) and leaves the
\* store as it was
C6_AsStated ==
    [][ Ends("transfer") =>
           LET t == last'.token
               o == get_owner_of(TxPre, t)
           IN  (Live(TxPre, t) /\ check_witness(last'.W, o) /\ last'.to = o) =>
                  /\ last'.res = "true"
                  /\ last'.ev = <<on_transfer(o, o, 1, t)>>
                  /\ store' = TxPre
      ]_vars

\* C6: a transfer of a live token by its witnessed owner o to o returns true
\* unless o is a contract whose hook aborts (the call then faults); when it
\* returns true and the hook, if one ran, called nothing, exactly one Transfer
\* event (o, o, 1, t) was fired and the store is as it was
C6_SelfTransfer ==
    [][ Ends("transfer") =>
           LET t == last'.token
               o == get_owner_of(TxPre, t)
           IN  (Live(TxPre, t) /\ check_witness(last'.W, o) /\ last'.to = o) =>
                  /\ last'.res \in {"true", "fault"}
                  /\ last'.res = "fault" =>
                        (last'.hooked = "aborted" /\ o \in Contracts /\ store' = TxPre)
                  /\ o \notin Contracts => (last'.res = "true" /\ last'.hooked = "no")
                  /\ (last'.res = "true" /\ Undisturbed(last')) =>
                        /\ last'.ev = <<on_transfer(o, o, 1, t)>>
                        /\ store' = TxPre
      ]_vars

\* an owner transferred a token to itself
C6_ToSelf ==
    /\ last.op = "transfer"
    /\ last.res = "true"
    /\ Undisturbed(last)
    /\ last.ev = <<on_transfer(last.to, last.to, 1, last.token)>>
    /\ get_owner_of(store, last.token) = last.to

\* C7: a mint whose fee payment fails faults: it returns no id, fires no
\* event, and the store, the counter included, is as it was
C7_MintFeeFailure ==
    [][ (Begins("mint") /\ last'.paid = <<FALSE>>) =>
           /\ last'.res = "fault"
           /\ last'.val = <<>>
           /\ last'.ev = <<>>
           /\ get(store', TOKEN_COUNT) = get(store, TOKEN_COUNT)
           /\ store' = store
      ]_vars

\* a mint failed on the fee after another mint had gone through
C7_Unpaid ==
    /\ last.op = "mint"
    /\ last.paid = <<FALSE>>
    /\ last.res = "fault"
    /\ to_int(get(store, TOKEN_COUNT)) > 0

\* C8: getLockedContent on a live token, witnessed by its owner, returns the
\* content the token was minted with and adds one to its view counter, changing
\* nothing else; the receiver of a transfer is served the same way
C8_OwnerReads ==
    [][ /\ Begins("getLockedContent") =>
              LET t == last'.token
                  o == get_owner_of(store, t)
              IN  (Live(store, t) /\ check_witness(last'.W, o)) =>
                     /\ last'.res = "value"
                     /\ last'.val = hist.content[t]
                     /\ getLockedContentViewCount(store', t)
                           = getLockedContentViewCount(store, t) + 1
                     /\ store' = put(store, mk_lv_key(t),
                                     <<getLockedContentViewCount(store, t) + 1>>)
        /\ (Ends("transfer") /\ last'.res = "true" /\ Undisturbed(last')) =>
              \A strict \in BOOLEAN :
                  LET r == getLockedContent(store', {last'.to}, last'.token, strict)
                  IN  r.res = "value" /\ r.val = hist'.content[last'.token]
      ]_vars

\* an owner was given the locked content of its token
C8_Served ==
    /\ last.op = "getLockedContent"
    /\ last.res = "value"
    /\ last.val \in Contents
    /\ last.val = hist.content[last.token]
    /\ getLockedContentViewCount(store, last.token) = 1

\* C9: getLockedContent that is not witnessed by the token's owner faults: it
\* returns no content and the store, the view counter included, is as it was;
\* this holds for the former owner right after a transfer
C9_Denied ==
    [][ /\ Begins("getLockedContent") =>
              LET t == last'.token
                  o == get_owner_of(store, t)
              IN  ~check_witness(last'.W, o) =>
                     /\ last'.res = "fault"
                     /\ last'.val = <<>>
                     /\ getLockedContentViewCount(store', t)
                           = getLockedContentViewCount(store, t)
                     /\ store' = store
        /\ (Ends("transfer") /\ last'.res = "true" /\ Undisturbed(last')
               /\ last'.ev[1][2] # last'.to) =>
              \A strict \in BOOLEAN :
                  getLockedContent(store', {last'.ev[1][2]}, last'.token, strict).res = "fault"
      ]_vars

\* somebody who is not the owner of the live token asked for its content
C9_Stranger ==
    /\ last.op = "getLockedContent"
    /\ last.res = "fault"
    /\ Live(store, last.token)
    /\ last.W # {}

\* C10: a successful burn removes the token's owner entry, index entry and
\* metadata; a later burn of it returns false and changes nothing; a burned
\* token never has an owner entry again
C10_BurnFinality ==
    [][ /\ (Begins("burn") /\ last'.res = "true") =>
              LET t == last'.token
                  o == get_owner_of(store, t)
              IN  /\ ~Live(store', t)
                  /\ mk_account_prefix(o) \o t \notin tokensOf(store', o)
                  /\ mk_token_key(t) \notin tokens(store')
                  /\ get_meta(store', t) = <<>>
        /\ (Begins("burn") /\ Burned(store, hist, last'.token)) =>
              (last'.res = "false" /\ store' = store)
        /\ (stack = <<>>) =>
              \A t \in DOMAIN hist.content : Burned(store, hist, t) => ~Live(store', t)
      ]_vars

\* C11: a successful burn removes the token's LockedContent entry, so that
\* only live tokens have one
C11_BurnRemovesLocked ==
    [][ /\ (Begins("burn") /\ last'.res = "true") =>
              mk_locked_key(last'.token) \notin DOMAIN store'
        /\ \A k \in find(store', LOCKED_PREFIX) :
              Live(store', SubSeq(k, Len(LOCKED_PREFIX) + 1, Len(k)))
      ]_vars

\* C12: the first deploy witnessed by the contract owner returns true and sets
\* the deployed flag; a deploy of a deployed contract returns false and leaves
\* the store as it was; the flag, once set, stays as it is
C12_DeployOnce ==
    [][ /\ Begins("deploy") =>
              IF to_bool(get(store, DEPLOYED))
              THEN last'.res = "false" /\ last'.ev = <<>> /\ store' = store
              ELSE IF check_witness(last'.W, OWNER)
                   THEN last'.res = "true" /\ to_bool(get(store', DEPLOYED))
              ELSE last'.res = "false" /\ last'.ev = <<>> /\ store' = store
        /\ to_bool(get(store, DEPLOYED)) => get(store', DEPLOYED) = get(store, DEPLOYED)
      ]_vars

\* the owner deployed again, with tokens in the ledger
C12_Redeployed ==
    /\ last.op = "deploy"
    /\ last.res = "false"
    /\ OWNER \in last.W
    /\ to_bool(get(store, DEPLOYED))
    /\ totalSupply(store) > 0

\* the list of authorized addresses the store holds (none before deploy)
AuthorizedAddresses(s) ==
    IF get(s, AUTH_ADDRESSES) = <<>> THEN <<>> ELSE deserialize(get(s, AUTH_ADDRESSES))

\* C13: setMintFee succeeds and stores the fee when the contract owner or an
\* address of the AuthorizedAddresses list is witnessed; for every other
\* caller it fails and leaves the fee as it was
C13_FeeAuthorization ==
    [][ Begins("setMintFee") =>
           LET fee == last'.arg[1]
               allowed == \/ check_witness(last'.W, OWNER)
                          \/ \E a \in last'.W : Holds(AuthorizedAddresses(store), a)
           IN  IF allowed
               THEN last'.res = "value" /\ get_mint_fee(store') = fee
               ELSE last'.res # "value" /\ get(store', MINT_FEE) = get(store, MINT_FEE)
      ]_vars

\* C14: in every state after a successful deploy the AuthorizedAddresses list
\* holds the contract owner
C14_OwnerAuthorized ==
    to_bool(get(store, DEPLOYED)) => Holds(AuthorizedAddresses(store), OWNER)

\* C15: no step of a transaction that goes through lowers the stored
\* TOKEN_COUNT, and a successful mint raises it by exactly 1
C15_CounterIncreasing ==
    [][ /\ last'.res # "fault" =>
              to_int(get(store', TOKEN_COUNT)) >= to_int(get(store, TOKEN_COUNT))
        /\ (Begins("mint") /\ last'.res # "fault") =>
              to_int(get(store', TOKEN_COUNT)) = to_int(get(store, TOKEN_COUNT)) + 1
      ]_vars

\* this step is a successful getLockedContent of token t, called by the
\* transaction or from inside a hook
Reads(t) ==
    /\ store' = incr_locked_view_counter(store, t)
    /\ \/ Begins("getLockedContent") /\ last'.token = t /\ last'.res = "value"
       \/ /\ stack # <<>>
          /\ Len(stack') = Len(stack)
          /\ stack'[1].calls = stack[1].calls + 1
          /\ get_owner_of(store, t) \in {stack[1].callee} \cup stack[Len(stack)].call.W

C17_OwnerOf ==
    [][ (Begins("ownerOf") /\ Live(store, last'.token)) =>
           /\ last'.res = "value"
           /\ last'.val = <<get_owner_of(store, last'.token)>>
      ]_vars

\* C18: in every reachable state the index entry (owner, t) exists exactly
\* when the TokenOwner entry of t names owner
C18_IndexConsistency ==
    \A a \in Addresses, t \in DOMAIN hist.content :
        (mk_account_prefix(a) \o t \in tokensOf(store, a))
            <=> (get(store, mk_token_key(t)) = <<a>>)

\* C19: a successful mint fires a Mint event that carries the new token id and
\* the fee charged
C19_MintEvent ==
    [][ (Begins("mint") /\ last'.res # "fault") =>
           \E i \in 1 .. Len(last'.ev) :
               /\ last'.ev[i][1] = "Mint"
               /\ last'.ev[i][3] = last'.val
               /\ last'.ev[i][6] = getMintFee(store)
      ]_vars

\* no value is held twice
NoDup(auth) == \A i, j \in 1 .. Len(auth) : auth[i] = auth[j] => i = j

\* C20: with the owner witnessed, set_authorized_address(a, true) on a list
\* that holds a returns true and leaves the store as it was, and on a deployed
\* list that does not hold a it appends a; the stored list never holds an
\* address twice; without the owner's witness the call returns false, fires no
\* event and leaves the store as it was
C20_IdempotentAdd ==
    [][ /\ Begins("set_authorized_address") =>
              LET a == last'.to
                  add == last'.arg[1]
                  auth == AuthorizedAddresses(store)
              IN  /\ ~check_witness(last'.W, OWNER) =>
                        (last'.res = "false" /\ last'.ev = <<>> /\ store' = store)
                  /\ (check_witness(last'.W, OWNER) /\ add /\ Holds(auth, a)) =>
                        /\ last'.res = "true"
                        /\ AuthorizedAddresses(store') = auth
                        /\ store' = store
                  /\ (check_witness(last'.W, OWNER) /\ add /\ ~Holds(auth, a)
                         /\ AUTH_ADDRESSES \in DOMAIN store) =>
                        /\ last'.res = "true"
                        /\ AuthorizedAddresses(store') = Append(auth, a)
        /\ NoDup(AuthorizedAddresses(store'))
      ]_vars

\* the owner added itself to the list deploy wrote, which holds it already
C20_AddedAgain ==
    /\ last.op = "set_authorized_address"
    /\ last.arg = <<TRUE>>
    /\ last.res = "true"
    /\ last.to = OWNER
    /\ AuthorizedAddresses(store) = <<OWNER>>
    /\ hist.admin = 0

\* the token a call suspended in a receiver's hook has just handed over: the
\* one transferred, the one minted, or the last one multiMint minted
Handed(f) ==
    IF f.call.op = "transfer" THEN f.call.token
    ELSE IF f.call.op = "multiMint" THEN f.val[Len(f.val)]
    ELSE f.val

\* C21: when transfer or mint calls the receiver's onNEP11Payment the token's
\* TokenOwner entry names the receiver and balances and supply match the
\* TokenOwner entries; they match again when the call, whose hook may have
\* called transfer, burn or getLockedContent, returns
C21_HookOrdering ==
    [][ /\ Len(stack') > Len(stack) =>
              /\ stack'[1].call.op \in {"transfer", "mint", "multiMint"}
              /\ get_owner_of(store', Handed(stack'[1])) = stack'[1].callee
              /\ C1_Accounting'
              /\ C2_Supply'
        /\ \A op \in {"transfer", "mint", "multiMint"} :
              (Ends(op) /\ last'.res # "fault" /\ last'.hooked # "no") =>
                  (C1_Accounting' /\ C2_Supply')
      ]_vars

\* whether an item of the multiMint call l cannot be minted: the fee is
\* negative, a payment fails or lockedContent is shorter than meta
BatchFails(pre, l) ==
    /\ Len(l.arg[1]) > 0
    /\ \/ get_mint_fee(pre) < 0
       \/ Len(l.arg[2]) < Len(l.arg[1])
       \/ \E i \in 1 .. Len(l.paid) : ~l.paid[i]

\* the ids the multiMint call l returned are as many as its metadata items and
\* differ from each other
BatchIds(l) ==
    /\ Len(l.val) = Len(l.arg[1])
    /\ \A i, j \in 1 .. Len(l.val) : l.val[i] = l.val[j] => i = j

\* every token the multiMint call l returned is live in post and owned by the
\* account with its item's metadata and locked content, and the account's
\* balance and the supply are those of pre plus the number of items
BatchMinted(pre, post, l) ==
    /\ \A i \in 1 .. Len(l.val) :
          /\ Live(post, l.val[i])
          /\ get_owner_of(post, l.val[i]) = l.to
          /\ get_meta(post, l.val[i]) = json_serialize(l.arg[1][i])
          /\ get_locked_content(post, l.val[i]) = l.arg[2][i]
    /\ balanceOf(post, l.to) = balanceOf(pre, l.to) + Len(l.arg[1])
    /\ totalSupply(post) = totalSupply(pre) + Len(l.arg[1])

====
